---- MODULE Spec2Model ----
(***************************************************************************)
(* A model of alulapy's AlulaClient (src/src/alulapy/client.py): the token *)
(* state, the token lock, the OAuth2 token exchange and the request        *)
(* pipeline with its single refresh-and-retry after a 401.                 *)
(*                                                                         *)
(* The client runs on one asyncio event loop.  A task runs without         *)
(* interruption from one await that suspends to the next, so every action  *)
(* below is the code a task executes between two such suspension points.   *)
(* The suspension points are the two network calls (session.post on the    *)
(* token endpoint, session.request on a resource) and the acquisition of   *)
(* a token lock that another task holds.                                   *)
(***************************************************************************)
EXTENDS Integers, Sequences, FiniteSets, TLC

\* ---------------------------------------------------------------- bounds
NumTasks == 2
MaxOps == 2
MaxTicks == 1
MaxLog == 3
MaxZones == 2

\* ------------------------------------------------------ program constants
TOKEN_EXPIRES_IN_DEFAULT == 900
TOKEN_REFRESH_BUFFER == 180
RESTORE_CAP == 300

\* --------------------------------------------------------------- inputs
Tasks == 1..NumTasks
NoTask == 0

\* Seconds by which the clock may advance between two steps.
TickStep == {200}

\* Token values.  None is Python's None, Empty the empty string (falsy like
\* None, but "is not None"), the others are non-empty strings.
None == [k |-> "none", id |-> 0]
Empty == [k |-> "empty", id |-> 0]
CallerAccess == [k |-> "caller_access", id |-> 0]
CallerRefresh == [k |-> "caller_refresh", id |-> 0]
ServerAccess(n) == [k |-> "access", id |-> n]
ServerRefresh(n) == [k |-> "refresh", id |-> n]

\* Python truthiness of a str | None.
Truthy(tok) == tok.k \notin {"none", "empty"}

\* Arguments a caller passes.
RestoreRefreshArgs == {CallerRefresh, Empty}
RestoreExpiresArgs == {0, 100, 240, 9999}
RefreshArgs == {None, Empty, CallerRefresh}

\* What the token endpoint may answer: an HTTP status with a body that
\* decodes as JSON or does not, or no HTTP response at all (status Transport:
\* session.post raises aiohttp.ClientError).  A 200 JSON body carries
\* expires_in or leaves it out, and carries the access_token and
\* refresh_token keys or lacks them; the JSON body of a 400 or 401 carries
\* error_description or leaves it out.
NoBody ==
    [has_expires_in |-> FALSE, expires_in |-> 0, has_tokens |-> FALSE,
     has_description |-> FALSE, error_description |-> ""]
TokenBody(has, e) ==
    [NoBody EXCEPT !.has_expires_in = has, !.expires_in = e,
                   !.has_tokens = TRUE]
DescriptionBody ==
    [NoBody EXCEPT !.has_description = TRUE,
                   !.error_description = "error_description"]
TokenBodies ==
    { TokenBody(TRUE, 100), TokenBody(TRUE, 900), TokenBody(FALSE, 0) }
Transport == 0
TokenResponses ==
    [status : {200}, json : {TRUE}, body : TokenBodies \cup {NoBody}]
        \cup [status : {200, 400, 401, 500}, json : {FALSE}, body : {NoBody}]
        \cup [status : {400, 401, 500, Transport}, json : {TRUE}, body : {NoBody}]
        \cup [status : {400, 401}, json : {TRUE}, body : {DescriptionBody}]

\* What a resource endpoint may answer: an HTTP status whose body decodes as
\* JSON or does not, or no HTTP response at all.
ResourceResponses ==
    [status : {200}, json : BOOLEAN]
        \cup [status : {401, 403, 500, Transport}, json : {TRUE}]

\* The event log async_discover_zones reads: each entry's signalUserZone is
\* a string, written as the sequence of its characters, and the entry
\* carries an alias and a type.
Digits == {"0", "1", "2", "3", "4", "5", "6", "7", "8", "9"}
ZoneStrings ==
    { <<>>, <<"0">>, <<"3">>, <<"0", "3">>, <<"5">>, <<"x">>, <<"3", "x">> }
Labels ==
    { [alias |-> "a", type |-> "door"], [alias |-> "b", type |-> "motion"] }
LogEntries ==
    { [signalUserZone |-> z, signalUserZoneAlias |-> l.alias,
       signalUserZoneType |-> l.type] : z \in ZoneStrings, l \in Labels }
EventLogs == UNION { [1..n -> LogEntries] : n \in 0..MaxLog }

\* The zone notification subscriptions of the server, as the resources
\* async_get_zones decodes: deviceId, zoneIndex and a zoneStatus object
\* with "on", which a resource may lack.
\* "by" names the call whose create the server stored, NoTask for a
\* subscription that was there before.
Sub(dev, idx, on) ==
    [deviceId |-> dev, zoneIndex |-> idx, has_status |-> TRUE, on |-> on,
     by |-> NoTask]
SubNoStatus(dev, idx) ==
    [deviceId |-> dev, zoneIndex |-> idx, has_status |-> FALSE, on |-> FALSE,
     by |-> NoTask]
\* The subscription the server stores for a create call of task t.
Created(t, key) == [Sub(key[1], key[2], key[3]) EXCEPT !.by = t]
OtherDeviceFeed ==
    { Sub("d2", 1, TRUE), Sub("d2", 1, FALSE), Sub("d1", 2, FALSE) }
InitialFeeds ==
    { {},
      OtherDeviceFeed \cup { Sub("d1", 1, TRUE) },
      { SubNoStatus("d1", 1) } }

\* The arguments of async_ensure_zone_subscriptions: a device and a list of
\* zone indices, in which an index may repeat.
EnsureDevices == {"d1"}
\* The two tasks that call async_ensure_zone_subscriptions.
EnsureTasks == {1, 2}
ZoneIndexLists == UNION { [1..n -> {1, 2}] : n \in 0..MaxZones }

\* The attributes of a device resource that Device.from_api reads for the
\* device type and the arming state.  Absent stands for a key the resource
\* lacks (attrs.get returns None).
Absent == "<absent>"
FlagValues == {Absent, "false", "true"}
ArmingLevels ==
    { Absent, "", "disarm", "armstay", "armaway", "armnight", "unknown",
      "bogus_value" }
DeviceAttributes ==
    [isPanel : FlagValues, isCamera : FlagValues, armingLevel : ArmingLevels]

\* What the RPC endpoint may answer: as a resource endpoint, with the
\* decoded JSON object of a 200 carrying an "error" member (with a "code" or
\* without) and a "result" member, or leaving them out.
NoRpc ==
    [has_error |-> FALSE, has_code |-> FALSE, code |-> 0, has_result |-> FALSE]
RpcError(c) == [NoRpc EXCEPT !.has_error = TRUE, !.has_code = TRUE, !.code = c]
RpcBodies ==
    { NoRpc,
      [NoRpc EXCEPT !.has_result = TRUE],
      RpcError(6),
      RpcError(7),
      [NoRpc EXCEPT !.has_error = TRUE],
      [RpcError(6) EXCEPT !.has_result = TRUE] }
RpcResponses ==
    [status : {200}, json : {TRUE}, rpc : RpcBodies]
        \cup [status : {200}, json : {FALSE}, rpc : {NoRpc}]
        \cup [status : {401, 500, Transport}, json : {TRUE}, rpc : {NoRpc}]

\* The public commands that go through _helix_command, named by the data
\* string they send.
HelixCommands == {"armStay", "armAway", "armNight", "disarm"}

\* The one task that makes the RPC calls.
RpcTasks == {1}

VARIABLES
    accessToken,    \* self._access_token
    refreshToken,   \* self._refresh_token
    tokenExpiry,    \* self._token_expiry
    lockHolder,     \* the task inside "async with self._token_lock", or NoTask
    now,            \* time.time()
    pc,             \* where each task is suspended
    op,             \* the public operation a task is running
    arg,            \* the refresh token an operation was given: the local
                    \* "token" of async_refresh, restore_tokens' refresh_token
    hdr,            \* request: the token in the Authorization header
    attempts,       \* request: the statuses of the resource calls answered
    sent,           \* request: resource calls issued
    calls,          \* token-endpoint calls issued by the task's operation
    writes,         \* token-state writes made by the task's operation
    pre,            \* request: what _ensure_token decided
    seen,           \* request: what _ensure_token read when it decided
    result,         \* what the operation returned or raised
    answer,         \* login, refresh: the token endpoint's response
    issued,         \* successful exchanges so far (names the tokens issued)
    opsStarted,     \* operations started so far
    ticks,          \* clock advances so far
    lastWrite,      \* the last write to the token state
    eventLog,       \* async_discover_zones: the "data" list of the event log
    scanned,        \* async_discover_zones: entries the loop has visited
    zones,          \* async_discover_zones: the dict "zones"
    subs,           \* the zone subscriptions the server holds
    ensure,         \* async_ensure_zone_subscriptions: each call's locals
    deviceData,     \* Device.from_api: the attributes of its argument
    device          \* Device.from_api: the Device it returned

tokenVars == <<accessToken, refreshToken, tokenExpiry>>
taskVars == <<pc, op, arg, hdr, attempts, sent, calls, writes, pre, seen,
              result, answer>>
dataVars == <<eventLog, scanned, zones, subs, ensure, deviceData, device>>
vars == <<accessToken, refreshToken, tokenExpiry, lockHolder, now, pc, op, arg,
          hdr, attempts, sent, calls, writes, pre, seen, result, answer, issued,
          opsStarted, ticks, lastWrite, eventLog, scanned, zones, subs,
          ensure, deviceData, device>>

\* ------------------------------------------------------------- results
NoResult == [kind |-> "none", msg |-> "", body |-> ""]
Ok(b) == [kind |-> "ok", msg |-> "", body |-> b]
AuthError(m) == [kind |-> "AlulaAuthError", msg |-> m, body |-> ""]
ConnectionError(m) == [kind |-> "AlulaConnectionError", msg |-> m, body |-> ""]
\* AlulaApiError(message, status_code); NoCode is status_code None.
NoCode == -1
ApiError(m, c) == [kind |-> "AlulaApiError", msg |-> m, body |-> "", code |-> c]
\* An exception of another class, which no except clause of the client names.
Raw(class, m) == [kind |-> class, msg |-> m, body |-> ""]

Min(a, b) == IF a <= b THEN a ELSE b

IsAuthenticatedNoBuffer(access, expiry, t) == access # None /\ t < expiry

\* is_authenticated
IsAuthenticatedAt(access, expiry, t) ==
    access # None /\ t < expiry - TOKEN_REFRESH_BUFFER

is_authenticated == IsAuthenticatedAt(accessToken, tokenExpiry, now)

\* ------------------------------------------------------------ __init__
NotSeen == [valid |-> FALSE, refresh |-> FALSE]
NoAnswer == [status |-> -1, json |-> FALSE, body |-> NoBody]
NoZones == <<>>
\* No call of async_ensure_zone_subscriptions made.
NoEnsure ==
    [pc |-> "idle", device |-> "", indices |-> <<>>, fetched |-> {},
     existing |-> {}, pos |-> 0, created |-> 0, creates |-> <<>>,
     failed |-> 0, outcome |-> "none"]
NoDiscover ==
    /\ eventLog = <<>>
    /\ scanned = 0
    /\ zones = NoZones
\* No device resource decoded.
NoDevice == [device_type |-> "", arming_state |-> "", is_armed |-> FALSE]
NoDecode ==
    /\ deviceData = [isPanel |-> Absent, isCamera |-> Absent,
                     armingLevel |-> Absent]
    /\ device = NoDevice
NoData ==
    /\ NoDiscover
    /\ NoDecode
    /\ subs = {}
    /\ ensure = [t \in Tasks |-> NoEnsure]

NoWrite == [kind |-> "init", id |-> 0, at |-> 0, expires_in |-> 0,
            by |-> NoTask, locked |-> FALSE]

\* The client as __init__ leaves it, no task running an operation.
Fresh ==
    /\ accessToken = None
    /\ refreshToken = None
    /\ tokenExpiry = 0
    /\ lockHolder = NoTask
    /\ now = 0
    /\ pc = [t \in Tasks |-> "idle"]
    /\ op = [t \in Tasks |-> "none"]
    /\ arg = [t \in Tasks |-> None]
    /\ hdr = [t \in Tasks |-> None]
    /\ attempts = [t \in Tasks |-> <<>>]
    /\ sent = [t \in Tasks |-> 0]
    /\ calls = [t \in Tasks |-> 0]
    /\ writes = [t \in Tasks |-> 0]
    /\ pre = [t \in Tasks |-> "none"]
    /\ seen = [t \in Tasks |-> NotSeen]
    /\ result = [t \in Tasks |-> NoResult]
    /\ answer = [t \in Tasks |-> NoAnswer]
    /\ issued = 0
    /\ opsStarted = 0
    /\ ticks = 0
    /\ lastWrite = NoWrite

Init == Fresh /\ NoData

\* A task may start an operation when it runs none.
CanStart(t) == pc[t] \in {"idle", "done"} /\ opsStarted < MaxOps

\* The bookkeeping of a task that starts operation o and is left at p.
Start(t, o, a, p, r, c, w) ==
    /\ opsStarted' = opsStarted + 1
    /\ pc' = [pc EXCEPT ![t] = p]
    /\ op' = [op EXCEPT ![t] = o]
    /\ arg' = [arg EXCEPT ![t] = a]
    /\ hdr' = [hdr EXCEPT ![t] = None]
    /\ attempts' = [attempts EXCEPT ![t] = <<>>]
    /\ sent' = [sent EXCEPT ![t] = 0]
    /\ calls' = [calls EXCEPT ![t] = c]
    /\ writes' = [writes EXCEPT ![t] = w]
    /\ pre' = [pre EXCEPT ![t] = "none"]
    /\ seen' = [seen EXCEPT ![t] = NotSeen]
    /\ result' = [result EXCEPT ![t] = r]
    /\ answer' = [answer EXCEPT ![t] = NoAnswer]

\* ------------------------------------------------------ restore_tokens
RestoreExpiryUncapped(t0, expires_in) == t0 + expires_in

RestoreExpiryNoClock(t0, expires_in) == Min(expires_in, RESTORE_CAP)

\* time.time() + min(expires_in, 300)
RestoreExpiry(t0, expires_in) == t0 + Min(expires_in, RESTORE_CAP)

\* restore_tokens(access_token, refresh_token, expires_in): synchronous, no
\* lock taken, no network call.
RestoreTokens(t, a, r, e) ==
    /\ CanStart(t)
    /\ accessToken' = a
    /\ refreshToken' = r
    /\ tokenExpiry' = RestoreExpiry(now, e)
    /\ lastWrite' = [kind |-> "restore", id |-> 0, at |-> now, expires_in |-> e,
                     by |-> t, locked |-> lockHolder = t]
    /\ Start(t, "restore", r, "done", Ok("None"), 0, 1)
    /\ UNCHANGED <<lockHolder, now, issued, ticks, dataVars>>

\* ------------------------------------------------------ _token_request
\* body.get("expires_in", TOKEN_EXPIRES_IN_DEFAULT)
ExpiresIn(body) ==
    IF body.has_expires_in THEN body.expires_in ELSE TOKEN_EXPIRES_IN_DEFAULT

\* What _token_request raises for a response, NoResult when it raises
\* nothing.  body = await resp.json() comes first, so a body that does not
\* decode raises aiohttp.ContentTypeError whatever the status; 401 and 400
\* raise AlulaAuthError; raise_for_status() raises ClientResponseError for
\* the other statuses >= 400; every aiohttp.ClientError is re-raised as
\* AlulaConnectionError.  After the try block, body["access_token"] and
\* body["refresh_token"] raise KeyError when the body lacks the keys.
\* body.get("error_description", default)
ErrorDescriptionIgnored(body, default) == default

ErrorDescription(body, default) ==
    IF body.has_description THEN body.error_description ELSE default

TokenFailure(resp) ==
    IF resp.status = Transport \/ ~resp.json
        THEN ConnectionError("Connection error during auth")
    ELSE IF resp.status = 401
        THEN AuthError(ErrorDescription(resp.body, "Invalid credentials"))
    ELSE IF resp.status = 400
        THEN AuthError(ErrorDescription(resp.body, "Auth error"))
    ELSE IF resp.status >= 400
        THEN ConnectionError("Connection error during auth")
    ELSE IF ~resp.body.has_tokens THEN Raw("KeyError", "access_token")
    ELSE NoResult

\* The three assignments that end _token_request, with the exchange's
\* number n naming the tokens of its response.
NewTokenStateStaleRefresh(n, body) ==
    [access |-> ServerAccess(n), refresh |-> refreshToken,
     expiry |-> now + ExpiresIn(body)]

NewTokenStateStaleExpiry(n, body) ==
    [access |-> ServerAccess(n), refresh |-> ServerRefresh(n),
     expiry |-> tokenExpiry]

NewTokenState(n, body) ==
    [access |-> ServerAccess(n), refresh |-> ServerRefresh(n),
     expiry |-> now + ExpiresIn(body)]

\* A successful exchange by task t stores the new token state; no await
\* separates the three assignments.
StoreTokens(t, body) ==
    LET new == NewTokenState(issued + 1, body) IN
    /\ accessToken' = new.access
    /\ refreshToken' = new.refresh
    /\ tokenExpiry' = new.expiry
    /\ issued' = issued + 1
    /\ writes' = [writes EXCEPT ![t] = @ + 1]
    /\ lastWrite' = [kind |-> "exchange", id |-> issued + 1, at |-> now,
                     expires_in |-> ExpiresIn(body), by |-> t,
                     locked |-> lockHolder = t]

KeepTokensDropAccess ==
    /\ accessToken' = None
    /\ UNCHANGED <<refreshToken, tokenExpiry, issued, writes, lastWrite>>

KeepTokens == UNCHANGED <<accessToken, refreshToken, tokenExpiry, issued,
                          writes, lastWrite>>

\* The task's operation ends with r.
Finish(t, r) ==
    /\ pc' = [pc EXCEPT ![t] = "done"]
    /\ result' = [result EXCEPT ![t] = r]

\* ------------------------------------------------- async_login / refresh
\* async_login: the password grant goes out.
Login(t) ==
    /\ CanStart(t)
    /\ Start(t, "login", None, "login_wait", NoResult, 1, 0)
    /\ UNCHANGED <<tokenVars, lockHolder, now, issued, ticks, lastWrite,
                   dataVars>>

\* token = refresh_token or self._refresh_token
RefreshTokenFor(supplied) == IF Truthy(supplied) THEN supplied ELSE refreshToken

MissingTokenIgnored(token) == FALSE

\* if not token: raise AlulaAuthError("No refresh token available")
MissingToken(token) == ~Truthy(token)

\* async_refresh called directly: fails at once without a token, else the
\* refresh_token grant goes out.
Refresh(t, supplied) ==
    /\ CanStart(t)
    /\ IF MissingToken(RefreshTokenFor(supplied))
         THEN Start(t, "refresh", RefreshTokenFor(supplied), "done",
                    AuthError("No refresh token available"), 0, 0)
         ELSE Start(t, "refresh", RefreshTokenFor(supplied), "refresh_wait",
                    NoResult, 1, 0)
    /\ UNCHANGED <<tokenVars, lockHolder, now, issued, ticks, lastWrite,
                   dataVars>>

\* The token endpoint answers a login or a direct refresh.
TokenResponse(t, resp) ==
    /\ pc[t] \in {"login_wait", "refresh_wait"}
    /\ IF TokenFailure(resp) = NoResult
         THEN StoreTokens(t, resp.body) /\ Finish(t, Ok("TokenInfo"))
         ELSE KeepTokens /\ Finish(t, TokenFailure(resp))
    /\ answer' = [answer EXCEPT ![t] = resp]
    /\ UNCHANGED <<lockHolder, now, op, arg, hdr, attempts, sent, calls, pre,
                   seen, opsStarted, ticks, dataVars>>

\* ------------------------------------------------------- _ensure_token
LockIgnored == TRUE

\* "async with self._token_lock" enters only while no task is inside.
LockFree == lockHolder = NoTask

EnsureDecisionAlwaysReturn(valid, hasRefresh) == "return"

EnsureDecisionRefreshFirst(valid, hasRefresh) ==
    IF hasRefresh THEN "refresh" ELSE IF valid THEN "return" ELSE "raise"

\* if self.is_authenticated: return / if self._refresh_token: refresh /
\* else: raise
EnsureDecision(valid, hasRefresh) ==
    IF valid THEN "return" ELSE IF hasRefresh THEN "refresh" ELSE "raise"

LoginFirst ==
    AuthError("Access token expired and no refresh token available. Call async_login() first.")

\* The resource call goes out with the stored access token in its
\* Authorization header.
SendFirst(t, access) ==
    /\ pc' = [pc EXCEPT ![t] = "send1"]
    /\ hdr' = [hdr EXCEPT ![t] = access]
    /\ sent' = [sent EXCEPT ![t] = 1]

\* A request is called: the task is about to enter _ensure_token.
Request(t) ==
    /\ CanStart(t)
    /\ Start(t, "request", None, "ensure", NoResult, 0, 0)
    /\ UNCHANGED <<tokenVars, lockHolder, now, issued, ticks, lastWrite,
                   dataVars>>

HolderAfterFailure(t, failure) == IF failure = NoResult THEN NoTask ELSE t

\* "async with self._token_lock" releases the lock when its block is left,
\* by a return or by an exception raised inside it.
HolderAfterExit(t, failure) == NoTask

\* _ensure_token from the acquisition of the lock to its first await: the
\* validity check, and either the return (after which _request sends the
\* first resource call), the start of a refresh inside the lock, or the
\* AlulaAuthError.
EnsureToken(t) ==
    /\ pc[t] = "ensure"
    /\ LockFree
    /\ LET d == EnsureDecision(is_authenticated, Truthy(refreshToken)) IN
       /\ pre' = [pre EXCEPT ![t] = d]
       /\ seen' = [seen EXCEPT ![t] = [valid |-> is_authenticated,
                                       refresh |-> Truthy(refreshToken)]]
       /\ CASE d = "return" ->
                 /\ SendFirst(t, accessToken)
                 /\ lockHolder' = HolderAfterExit(t, NoResult)
                 /\ UNCHANGED <<calls, result>>
            [] d = "refresh" /\ ~MissingToken(RefreshTokenFor(None)) ->
                 /\ pc' = [pc EXCEPT ![t] = "pre_refresh"]
                 /\ lockHolder' = t
                 /\ calls' = [calls EXCEPT ![t] = @ + 1]
                 /\ UNCHANGED <<hdr, sent, result>>
            [] d = "refresh" /\ MissingToken(RefreshTokenFor(None)) ->
                 /\ Finish(t, AuthError("No refresh token available"))
                 /\ lockHolder' =
                        HolderAfterExit(t, AuthError("No refresh token available"))
                 /\ UNCHANGED <<calls, hdr, sent>>
            [] OTHER ->
                 /\ Finish(t, LoginFirst)
                 /\ lockHolder' = HolderAfterExit(t, LoginFirst)
                 /\ UNCHANGED <<calls, hdr, sent>>
    /\ KeepTokens
    /\ UNCHANGED <<now, op, arg, attempts, answer, opsStarted, ticks,
                   dataVars>>

\* The token endpoint answers the refresh made inside the lock.  The lock
\* is left either way; on success _request goes on to its first resource
\* call without suspending in between.
PreRefreshResponse(t, resp) ==
    /\ pc[t] = "pre_refresh"
    /\ lockHolder' = HolderAfterExit(t, TokenFailure(resp))
    /\ IF TokenFailure(resp) = NoResult
         THEN /\ StoreTokens(t, resp.body)
              /\ SendFirst(t, accessToken')
              /\ UNCHANGED result
         ELSE /\ KeepTokens
              /\ Finish(t, TokenFailure(resp))
              /\ UNCHANGED <<hdr, sent>>
    /\ UNCHANGED <<now, op, arg, attempts, calls, pre, seen, answer,
                   opsStarted, ticks, dataVars>>

\* ------------------------------------------------------------ _request
\* What _request makes of a response that is not a 401: body names the
\* response whose JSON is returned.  raise_for_status() raises
\* ClientResponseError, an aiohttp.ClientError, for a status >= 400, and
\* the except clause turns every ClientError into AlulaConnectionError.
ResourceResultTransportRaw(resp, body) ==
    IF resp.status = Transport
        THEN Raw("ClientError", "")
    ELSE IF resp.status >= 400 \/ ~resp.json
        THEN ConnectionError("Connection error: method path")
        ELSE Ok(body)

ResourceResult(resp, body) ==
    IF resp.status = Transport \/ resp.status >= 400 \/ ~resp.json
        THEN ConnectionError("Connection error: method path")
        ELSE Ok(body)

RetryResultFirstBody(resp) ==
    IF resp.status = 401
        THEN AuthError("Authentication failed after refresh")
        ELSE ResourceResult(resp, "first")

RetryResultUnchecked(resp) == ResourceResult(resp, "retry")

\* The retry's response: a second 401 raises AlulaAuthError.
RetryResult(resp) ==
    IF resp.status = 401
        THEN AuthError("Authentication failed after refresh")
        ELSE ResourceResult(resp, "retry")

\* ----------------------------------------------------------------- _rpc
RpcResultResultFirst(r, rpc) ==
    IF r.kind # "ok" THEN r
    ELSE IF rpc.has_result THEN Ok("result")
    ELSE IF rpc.has_error
        THEN ApiError("RPC error", IF rpc.has_code THEN rpc.code ELSE NoCode)
    ELSE Ok("{}")

\* What _rpc makes of the outcome r of its _request and, when _request
\* returned, of the decoded object: an "error" member raises AlulaApiError
\* with status_code err.get("code"), else result.get("result", {}) is
\* returned.  An exception of _request passes through.
RpcResult(r, rpc) ==
    IF r.kind # "ok" THEN r
    ELSE IF rpc.has_error
        THEN ApiError("RPC error", IF rpc.has_code THEN rpc.code ELSE NoCode)
    ELSE Ok(IF rpc.has_result THEN "result" ELSE "{}")

\* The AlulaApiError _helix_command raises in place of an RPC error 6.
Denied == ApiError("Arm/disarm command denied: interactiveEnabled is off", 6)

HelixCommandResultAllDenied(r) ==
    IF r.kind = "AlulaApiError" THEN Denied ELSE r

\* What _helix_command makes of the outcome r of its _rpc call: only an
\* AlulaApiError with status_code 6 is replaced.
HelixCommandResult(r) ==
    IF r.kind = "AlulaApiError" /\ r.code = 6 THEN Denied ELSE r

\* What the caller of the operation o gets when its _request ends with r
\* on the response resp.
Deliver(o, resp, r) ==
    IF o = "request" THEN r
    ELSE IF o = "rpc" THEN RpcResult(r, resp.rpc)
    ELSE HelixCommandResult(RpcResult(r, resp.rpc))

UnauthorizedOrForbidden(resp) == resp.status \in {401, 403}

\* if resp.status == 401: the one status on which _request refreshes and
\* sends again.
Unauthorized(resp) == resp.status = 401

\* The first resource call is answered.  A 401 calls async_refresh(), which
\* fails at once without a stored refresh token and else sends the grant.
FirstResponse(t, resp) ==
    /\ pc[t] = "send1"
    /\ attempts' = [attempts EXCEPT ![t] = Append(@, resp)]
    /\ IF Unauthorized(resp)
         THEN IF MissingToken(RefreshTokenFor(None))
                THEN /\ Finish(t, AuthError("No refresh token available"))
                     /\ UNCHANGED calls
                ELSE /\ pc' = [pc EXCEPT ![t] = "retry_refresh"]
                     /\ calls' = [calls EXCEPT ![t] = @ + 1]
                     /\ UNCHANGED result
         ELSE /\ Finish(t, Deliver(op[t], resp, ResourceResult(resp, "first")))
              /\ UNCHANGED calls
    /\ KeepTokens
    /\ UNCHANGED <<lockHolder, now, op, arg, hdr, sent, pre, seen, answer,
                   opsStarted, ticks, dataVars>>

ResendAsFirst == "send1"

\* The second attempt is made inside the 401 branch of the first: its own
\* 401 raises, and nothing leads from it to another refresh.
Resend == "send2"

AuthorizationRejected(rejected, stored) == rejected

\* headers["Authorization"] = f"Bearer {self._access_token}", read after
\* "await self.async_refresh()" has returned.
AuthorizationAfterRefresh(rejected, stored) == stored

\* The token endpoint answers the refresh made after a 401.  On success the
\* header takes the stored access token and the retry goes out; a failure
\* (AlulaAuthError or AlulaConnectionError) leaves _request as it is.
RetryRefreshResponse(t, resp) ==
    /\ pc[t] = "retry_refresh"
    /\ IF TokenFailure(resp) = NoResult
         THEN /\ StoreTokens(t, resp.body)
              /\ pc' = [pc EXCEPT ![t] = Resend]
              /\ hdr' = [hdr EXCEPT
                          ![t] = AuthorizationAfterRefresh(@, accessToken')]
              /\ sent' = [sent EXCEPT ![t] = 2]
              /\ UNCHANGED result
         ELSE /\ KeepTokens
              /\ Finish(t, TokenFailure(resp))
              /\ UNCHANGED <<hdr, sent>>
    /\ UNCHANGED <<lockHolder, now, op, arg, attempts, calls, pre, seen,
                   answer, opsStarted, ticks, dataVars>>

\* The retry is answered.
RetryResponse(t, resp) ==
    /\ pc[t] = "send2"
    /\ attempts' = [attempts EXCEPT ![t] = Append(@, resp)]
    /\ Finish(t, Deliver(op[t], resp, RetryResult(resp)))
    /\ KeepTokens
    /\ UNCHANGED <<lockHolder, now, op, arg, hdr, sent, calls, pre, seen,
                   answer, opsStarted, ticks, dataVars>>

\* _rpc(rpc_method, params) called directly: it builds the payload and
\* calls _request.
Rpc(t) ==
    /\ CanStart(t)
    /\ Start(t, "rpc", None, "ensure", NoResult, 0, 0)
    /\ UNCHANGED <<tokenVars, lockHolder, now, issued, ticks, lastWrite,
                   dataVars>>

\* async_arm_stay, async_arm_away, async_arm_night, async_disarm:
\* _helix_command(device_id, cmd) calls _rpc("helix.command", ...).
HelixCommand(t, cmd) ==
    /\ CanStart(t)
    /\ Start(t, cmd, None, "ensure", NoResult, 0, 0)
    /\ UNCHANGED <<tokenVars, lockHolder, now, issued, ticks, lastWrite,
                   dataVars>>

\* ------------------------------------------------ async_discover_zones
\* str.isdigit() of a string of these characters.
IsDigit(str) == str # <<>> /\ \A i \in 1..Len(str) : str[i] \in Digits

DigitValue(c) ==
    CASE c = "0" -> 0 [] c = "1" -> 1 [] c = "2" -> 2 [] c = "3" -> 3
      [] c = "4" -> 4 [] c = "5" -> 5 [] c = "6" -> 6 [] c = "7" -> 7
      [] c = "8" -> 8 [] c = "9" -> 9

\* int() of an all-digit string.
RECURSIVE ToInt(_)
ToInt(str) ==
    IF str = <<>> THEN 0
    ELSE 10 * ToInt(SubSeq(str, 1, Len(str) - 1)) + DigitValue(str[Len(str)])

ZoneInfo(entry) ==
    [zone_name |-> entry.signalUserZoneAlias,
     zone_type |-> entry.signalUserZoneType]

DiscoverEntryLastWins(found, entry) ==
    IF ~IsDigit(entry.signalUserZone) \/ ToInt(entry.signalUserZone) = 0
        THEN found
        ELSE (ToInt(entry.signalUserZone) :> ZoneInfo(entry)) @@ found

\* One pass of the loop body over entry, with the dict found so far.
DiscoverEntry(found, entry) ==
    LET zone_str == entry.signalUserZone IN
    IF zone_str = <<>> \/ ~IsDigit(zone_str) THEN found
    ELSE IF ToInt(zone_str) = 0 \/ ToInt(zone_str) \in DOMAIN found THEN found
    ELSE found @@ (ToInt(zone_str) :> ZoneInfo(entry))

\* The loop of async_discover_zones visits the next entry of the log.
DiscoverStep ==
    /\ scanned < Len(eventLog)
    /\ scanned' = scanned + 1
    /\ zones' = DiscoverEntry(zones, eventLog[scanned + 1])
    /\ UNCHANGED <<tokenVars, lockHolder, now, taskVars, issued, opsStarted,
                   ticks, lastWrite, eventLog, subs, ensure, deviceData,
                   device>>

\* ------------------------------------- async_ensure_zone_subscriptions
\* (z.device_id, z.zone_index, z.status.is_active) of Zone.from_api(z):
\* is_active is data.get("on", False) of attrs.get("zoneStatus", {}).
ZoneKey(z) == <<z.deviceId, z.zoneIndex, z.has_status /\ z.on>>

\* The key the loops reach at their p-th pass: zone_indices in order, and
\* for each index status_on True, then False.
KeyAt(e, p) == <<e.device, e.indices[(p + 1) \div 2], p % 2 = 1>>

SubscribedAnyDevice(existing, key) ==
    \E k \in existing : k[2] = key[2] /\ k[3] = key[3]

SubscribedNever(existing, key) == FALSE

SubscribedAlways(existing, key) == TRUE

\* (device_id, zone_idx, status_on) in existing_keys
Subscribed(existing, key) == key \in existing

\* The loops run on from position e.pos without suspending until a key is
\* missing, whose create call goes out, or until they end and created is
\* returned.
Continue(e) ==
    LET missing == { p \in (e.pos + 1)..(2 * Len(e.indices)) :
                        ~Subscribed(e.existing, KeyAt(e, p)) }
    IN  IF missing = {}
            THEN [e EXCEPT !.pc = "done", !.pos = 2 * Len(e.indices),
                           !.outcome = "returned"]
            ELSE LET p == CHOOSE q \in missing : \A r \in missing : q <= r
                 IN  [e EXCEPT !.pc = "create", !.pos = p,
                               !.creates = Append(@, KeyAt(e, p))]

ensureFrame == <<tokenVars, lockHolder, now, taskVars, issued, ticks,
                 lastWrite, eventLog, scanned, zones, deviceData, device>>

\* async_ensure_zone_subscriptions(device_id, zone_indices) is called and
\* waits for async_get_zones.  Each task makes one call.
EnsureStart(t, dev, idxs) ==
    /\ ensure[t].pc = "idle"
    /\ ensure' = [ensure EXCEPT ![t] =
                     [NoEnsure EXCEPT !.pc = "fetch", !.device = dev,
                                      !.indices = idxs]]
    /\ UNCHANGED <<ensureFrame, subs, opsStarted>>

\* async_get_zones returns the subscriptions the server holds; the set
\* existing_keys is built and the loops start.
FetchReturned(t) ==
    /\ ensure[t].pc = "fetch"
    /\ ensure' = [ensure EXCEPT ![t] =
                     Continue([@ EXCEPT !.fetched = subs,
                                        !.existing = {ZoneKey(z) : z \in subs}])]
    /\ UNCHANGED <<ensureFrame, subs, opsStarted>>

\* async_get_zones raises: the exception leaves the call.
FetchFailed(t) ==
    /\ ensure[t].pc = "fetch"
    /\ ensure' = [ensure EXCEPT ![t] = [@ EXCEPT !.pc = "done",
                                                  !.outcome = "raised"]]
    /\ UNCHANGED <<ensureFrame, subs, opsStarted>>

CountEvery(created, raised) == created + 1

\* "created += 1" is reached only when the create call did not raise.
Count(created, raised) == IF raised THEN created ELSE created + 1

\* The keys of the subscriptions the server holds.
ServerKeys == {ZoneKey(z) : z \in subs}

\* The server stores the subscription of the create call in flight, which
\* it does only while it holds none with that key; created += 1.
CreateAccepted(t) ==
    LET e == ensure[t] IN
    /\ e.pc = "create"
    /\ KeyAt(e, e.pos) \notin ServerKeys
    /\ subs' = subs \cup {Created(t, KeyAt(e, e.pos))}
    /\ ensure' = [ensure EXCEPT ![t] =
                     Continue([e EXCEPT !.created = Count(@, FALSE)])]
    /\ UNCHANGED <<ensureFrame, opsStarted>>

\* The failing create call is logged by "except Exception" and the loops
\* go on.
Swallow(t) ==
    /\ ensure' = [ensure EXCEPT ![t] =
                     Continue([@ EXCEPT !.created = Count(@, TRUE),
                                        !.failed = @ + 1])]
    /\ UNCHANGED <<ensureFrame, subs, opsStarted>>

\* The create call in flight raises (the server rejects it, or _request
\* fails otherwise).
CreateFailed(t) ==
    /\ ensure[t].pc = "create"
    /\ Swallow(t)

\* The server rejects the create call in flight because it holds a
\* subscription with that key (403): _request raises.
CreateRejected(t) ==
    /\ ensure[t].pc = "create"
    /\ KeyAt(ensure[t], ensure[t].pos) \in ServerKeys
    /\ Swallow(t)

\* ----------------------------------------------------- Device.from_api
\* Python truthiness of attrs.get(key) for these values.
TruthyValue(v) == v \notin {Absent, "", "false"}

DeviceTypeCameraFirst(attrs) ==
    IF TruthyValue(attrs.isCamera) THEN "camera"
    ELSE IF TruthyValue(attrs.isPanel) THEN "panel"
    ELSE "unknown"

\* if attrs.get("isPanel") ... elif attrs.get("isCamera") ... else
DeviceTypeOf(attrs) ==
    IF TruthyValue(attrs.isPanel) THEN "panel"
    ELSE IF TruthyValue(attrs.isCamera) THEN "camera"
    ELSE "unknown"

\* The values of the ArmingState enum.
ArmingStates == {"disarm", "armstay", "armaway", "armnight", "unknown"}

\* ArmingState(raw_arming) if raw_arming else UNKNOWN, with ValueError
\* (a value that is no member) turned into UNKNOWN.
ArmingStateOf(raw_arming) ==
    IF ~TruthyValue(raw_arming) THEN "unknown"
    ELSE IF raw_arming \in ArmingStates THEN raw_arming
    ELSE "unknown"

\* Device.is_armed
IsArmed(state) == state \in {"armstay", "armaway", "armnight"}

\* Device.from_api(data) returns.
DecodeDevice ==
    /\ device = NoDevice
    /\ device' = [device_type |-> DeviceTypeOf(deviceData),
                  arming_state |-> ArmingStateOf(deviceData.armingLevel),
                  is_armed |-> IsArmed(ArmingStateOf(deviceData.armingLevel))]
    /\ UNCHANGED <<tokenVars, lockHolder, now, taskVars, issued, opsStarted,
                   ticks, lastWrite, eventLog, scanned, zones, subs, ensure,
                   deviceData>>

\* --------------------------------------------------------------- clock
Tick ==
    /\ ticks < MaxTicks
    /\ \E d \in TickStep : now' = now + d
    /\ ticks' = ticks + 1
    /\ UNCHANGED <<tokenVars, lockHolder, taskVars, issued, opsStarted,
                   lastWrite, dataVars>>

\* ---------------------------------------------------------------- Spec
Next ==
    \/ \E t \in Tasks : Login(t)
    \/ \E t \in Tasks, a \in RefreshArgs : Refresh(t, a)
    \/ \E t \in Tasks, r \in RestoreRefreshArgs, e \in RestoreExpiresArgs :
            RestoreTokens(t, CallerAccess, r, e)
    \/ \E t \in Tasks : Request(t)
    \/ \E t \in Tasks : EnsureToken(t)
    \/ \E t \in Tasks, resp \in TokenResponses : TokenResponse(t, resp)
    \/ \E t \in Tasks, resp \in TokenResponses : PreRefreshResponse(t, resp)
    \/ \E t \in Tasks, resp \in ResourceResponses : FirstResponse(t, resp)
    \/ \E t \in Tasks, resp \in TokenResponses : RetryRefreshResponse(t, resp)
    \/ \E t \in Tasks, resp \in ResourceResponses : RetryResponse(t, resp)
    \/ Tick

Spec == Init /\ [][Next]_vars

\* Requests racing after expiry: the client holds the tokens that
\* restore_tokens(access, refresh, 100) stored, which are not valid, and
\* every task has called a request.
InitRace ==
    /\ accessToken = CallerAccess
    /\ refreshToken = CallerRefresh
    /\ tokenExpiry = RestoreExpiry(0, 100)
    /\ lockHolder = NoTask
    /\ now = 0
    /\ pc = [t \in Tasks |-> "ensure"]
    /\ op = [t \in Tasks |-> "request"]
    /\ arg = [t \in Tasks |-> None]
    /\ hdr = [t \in Tasks |-> None]
    /\ attempts = [t \in Tasks |-> <<>>]
    /\ sent = [t \in Tasks |-> 0]
    /\ calls = [t \in Tasks |-> 0]
    /\ writes = [t \in Tasks |-> 0]
    /\ pre = [t \in Tasks |-> "none"]
    /\ seen = [t \in Tasks |-> NotSeen]
    /\ result = [t \in Tasks |-> NoResult]
    /\ answer = [t \in Tasks |-> NoAnswer]
    /\ NoData
    /\ issued = 0
    /\ opsStarted = 0
    /\ ticks = 0
    /\ lastWrite = [kind |-> "restore", id |-> 0, at |-> 0, expires_in |-> 100,
                    by |-> NoTask, locked |-> FALSE]

NextRace ==
    \/ \E t \in Tasks : EnsureToken(t)
    \/ \E t \in Tasks, resp \in TokenResponses : PreRefreshResponse(t, resp)
    \/ \E t \in Tasks, resp \in ResourceResponses : FirstResponse(t, resp)
    \/ \E t \in Tasks, resp \in TokenResponses : RetryRefreshResponse(t, resp)
    \/ \E t \in Tasks, resp \in ResourceResponses : RetryResponse(t, resp)
    \/ Tick

SpecRace == InitRace /\ [][NextRace]_vars

\* ------------------------------------------------------------ SpecLive
\* Requests racing after expiry, with or without a stored refresh token,
\* under the scheduling the event loop gives: every network
\* call returns (each response step is taken once it is due), and a task
\* waiting for the lock is not passed over for ever, asyncio.Lock waking
\* its waiters in the order they arrived.  The answers are a token
\* response that succeeds (with a lifetime inside or outside the refresh
\* buffer), a 401 and a transport failure; a resource response of 200, of
\* 401 and a transport failure.
InitLive ==
    /\ accessToken = CallerAccess
    /\ refreshToken \in {None, CallerRefresh}
    /\ tokenExpiry = RestoreExpiry(0, 100)
    /\ lockHolder = NoTask
    /\ now = 0
    /\ pc = [t \in Tasks |-> "ensure"]
    /\ op = [t \in Tasks |-> "request"]
    /\ arg = [t \in Tasks |-> None]
    /\ hdr = [t \in Tasks |-> None]
    /\ attempts = [t \in Tasks |-> <<>>]
    /\ sent = [t \in Tasks |-> 0]
    /\ calls = [t \in Tasks |-> 0]
    /\ writes = [t \in Tasks |-> 0]
    /\ pre = [t \in Tasks |-> "none"]
    /\ seen = [t \in Tasks |-> NotSeen]
    /\ result = [t \in Tasks |-> NoResult]
    /\ answer = [t \in Tasks |-> NoAnswer]
    /\ NoData
    /\ issued = 0
    /\ opsStarted = 0
    /\ ticks = 0
    /\ lastWrite = [kind |-> "restore", id |-> 0, at |-> 0, expires_in |-> 100,
                    by |-> NoTask, locked |-> FALSE]

LiveTokenResponses ==
    { r \in TokenResponses :
        /\ r.json
        /\ r.status \in {200, 401, Transport}
        /\ r.body \in {TokenBody(TRUE, 100), TokenBody(TRUE, 900), NoBody}
        /\ (r.status = 200) = r.body.has_tokens }

LiveResourceResponses ==
    { r \in ResourceResponses : r.json /\ r.status \in {200, 401, Transport} }

NextLive ==
    \/ \E t \in Tasks : EnsureToken(t)
    \/ \E t \in Tasks, resp \in LiveTokenResponses : PreRefreshResponse(t, resp)
    \/ \E t \in Tasks, resp \in LiveResourceResponses : FirstResponse(t, resp)
    \/ \E t \in Tasks, resp \in LiveTokenResponses :
            RetryRefreshResponse(t, resp)
    \/ \E t \in Tasks, resp \in LiveResourceResponses : RetryResponse(t, resp)

FairLive ==
    \A t \in Tasks :
        /\ SF_vars(EnsureToken(t))
        /\ WF_vars(\E resp \in LiveTokenResponses : PreRefreshResponse(t, resp))
        /\ WF_vars(\E resp \in LiveResourceResponses : FirstResponse(t, resp))
        /\ WF_vars(\E resp \in LiveTokenResponses :
                        RetryRefreshResponse(t, resp))
        /\ WF_vars(\E resp \in LiveResourceResponses : RetryResponse(t, resp))

SpecLive == InitLive /\ [][NextLive]_vars /\ FairLive

\* ------------------------------------------------------------- SpecRpc
\* RPC calls and panel commands made one after the other on a client whose
\* tokens were restored with a lifetime of 240 s: the token is valid at
\* first and has expired after the clock advances.
InitRpc ==
    /\ accessToken = CallerAccess
    /\ refreshToken \in RestoreRefreshArgs
    /\ tokenExpiry = RestoreExpiry(0, 240)
    /\ lockHolder = NoTask
    /\ now = 0
    /\ pc = [t \in Tasks |-> "idle"]
    /\ op = [t \in Tasks |-> "none"]
    /\ arg = [t \in Tasks |-> None]
    /\ hdr = [t \in Tasks |-> None]
    /\ attempts = [t \in Tasks |-> <<>>]
    /\ sent = [t \in Tasks |-> 0]
    /\ calls = [t \in Tasks |-> 0]
    /\ writes = [t \in Tasks |-> 0]
    /\ pre = [t \in Tasks |-> "none"]
    /\ seen = [t \in Tasks |-> NotSeen]
    /\ result = [t \in Tasks |-> NoResult]
    /\ answer = [t \in Tasks |-> NoAnswer]
    /\ NoData
    /\ issued = 0
    /\ opsStarted = 0
    /\ ticks = 0
    /\ lastWrite = [kind |-> "restore", id |-> 0, at |-> 0, expires_in |-> 240,
                    by |-> NoTask, locked |-> FALSE]

NextRpc ==
    \/ \E t \in RpcTasks : Rpc(t)
    \/ \E t \in RpcTasks, cmd \in HelixCommands : HelixCommand(t, cmd)
    \/ \E t \in Tasks : EnsureToken(t)
    \/ \E t \in Tasks, resp \in TokenResponses : PreRefreshResponse(t, resp)
    \/ \E t \in Tasks, resp \in RpcResponses : FirstResponse(t, resp)
    \/ \E t \in Tasks, resp \in TokenResponses : RetryRefreshResponse(t, resp)
    \/ \E t \in Tasks, resp \in RpcResponses : RetryResponse(t, resp)
    \/ Tick

SpecRpc == InitRpc /\ [][NextRpc]_vars

\* -------------------------------------------------------- SpecDiscover
\* async_discover_zones on every event log of at most MaxLog entries.
InitDiscover ==
    /\ Fresh
    /\ eventLog \in EventLogs
    /\ scanned = 0
    /\ zones = NoZones
    /\ NoDecode
    /\ subs = {}
    /\ ensure = [t \in Tasks |-> NoEnsure]

NextDiscover == DiscoverStep

SpecDiscover == InitDiscover /\ [][NextDiscover]_vars

\* ---------------------------------------------------------- SpecDevice
\* Device.from_api on every combination of the attributes.
InitDevice ==
    /\ Fresh
    /\ NoDiscover
    /\ subs = {}
    /\ ensure = [t \in Tasks |-> NoEnsure]
    /\ deviceData \in DeviceAttributes
    /\ device = NoDevice

NextDevice == DecodeDevice

SpecDevice == InitDevice /\ [][NextDevice]_vars

\* ---------------------------------------------------------- SpecEnsure
\* Two calls of async_ensure_zone_subscriptions, one after the other or
\* overlapping, against a server that starts with one of the feeds.
InitEnsure ==
    /\ Fresh
    /\ NoDiscover
    /\ NoDecode
    /\ subs \in InitialFeeds
    /\ ensure = [t \in Tasks |-> NoEnsure]

NextEnsure ==
    \/ \E t \in EnsureTasks, dev \in EnsureDevices, idxs \in ZoneIndexLists :
            EnsureStart(t, dev, idxs)
    \/ \E t \in Tasks : FetchReturned(t)
    \/ \E t \in Tasks : FetchFailed(t)
    \/ \E t \in Tasks : CreateAccepted(t)
    \/ \E t \in Tasks : CreateFailed(t)

SpecEnsure == InitEnsure /\ [][NextEnsure]_vars

\* The same calls when every request gets through and the server rejects a
\* create only for a key it already holds.
NextConcurrent ==
    \/ \E t \in EnsureTasks, dev \in EnsureDevices, idxs \in ZoneIndexLists :
            EnsureStart(t, dev, idxs)
    \/ \E t \in Tasks : FetchReturned(t)
    \/ \E t \in Tasks : CreateAccepted(t)
    \/ \E t \in Tasks : CreateRejected(t)

SpecConcurrent == InitEnsure /\ [][NextConcurrent]_vars

\* =================================================================
\* Properties
\* =================================================================
TokenWait == {"login_wait", "refresh_wait", "pre_refresh", "retry_refresh"}

\* The statuses task t's resource calls were answered with.
Answered(t, s1, s2) ==
    /\ op[t] = "request"
    /\ Len(attempts[t]) = 2
    /\ attempts[t][1].status = s1
    /\ attempts[t][2].status = s2

\* Token-endpoint calls and token writes of task t's pre-check.
PreCalls(t) == IF pre[t] = "refresh" THEN 1 ELSE 0

\* C1 as stated: a request answered 401 and then 200 (with a JSON body)
\* returns the retry's body after a refresh, and replaces the stored token
\* state exactly once during the request.
C1_TokenReplacedOnce ==
    \A t \in Tasks :
        (Answered(t, 401, 200) /\ attempts[t][2].json) =>
            /\ result[t] = Ok("retry")
            /\ calls[t] >= 1
            /\ writes[t] = 1

\* C1 amended: a request answered 401 and then 200 (with a JSON body) has
\* made exactly one token refresh between the two attempts, returns the
\* retry's body, and has replaced the stored token state exactly once after
\* its first attempt: once in all when _ensure_token found the token valid,
\* twice when _ensure_token refreshed too.
C1_RetryAfterOneRefresh ==
    \A t \in Tasks :
        (Answered(t, 401, 200) /\ attempts[t][2].json) =>
            /\ pc[t] = "done"
            /\ result[t] = Ok("retry")
            /\ calls[t] - PreCalls(t) = 1
            /\ writes[t] - PreCalls(t) = 1
            /\ writes[t] = (IF pre[t] = "return" THEN 1 ELSE 2)

C1_Witness ==
    \E t \in Tasks :
        /\ Answered(t, 401, 200) /\ attempts[t][2].json
        /\ pre[t] = "return"
        /\ writes[t] = 1

\* C2: a request whose first attempt and retry are both answered 401 fails
\* with AlulaAuthError("Authentication failed after refresh") after exactly
\* two resource calls, and no request ever issues a third.
C2_SecondUnauthorizedFails ==
    \A t \in Tasks :
        /\ sent[t] <= 2
        /\ Len(attempts[t]) <= sent[t]
        /\ Answered(t, 401, 401) =>
              /\ pc[t] = "done"
              /\ result[t] = AuthError("Authentication failed after refresh")
              /\ sent[t] = 2

C2_Witness == \E t \in Tasks : Answered(t, 401, 401) /\ pc[t] = "done"

\* C3: a resource response with a non-2xx status other than 401 makes the
\* request fail with ApiError (not AuthError, not ConnectionError).
C3_ApiErrorOnStatus ==
    \A t \in Tasks :
        (/\ op[t] = "request"
         /\ pc[t] = "done"
         /\ attempts[t] # <<>>
         /\ attempts[t][Len(attempts[t])].status \in {403, 500}) =>
            result[t].kind = "AlulaApiError"

\* C4: at most one token-endpoint call (login or refresh grant) is in
\* flight at a time.
C4_OneTokenCallInFlight ==
    Cardinality({t \in Tasks : pc[t] \in TokenWait}) <= 1

\* C5 as stated: of the tasks racing a request after expiry exactly one
\* refreshes in _ensure_token, and the others proceed with its token.
C5_OnePreCheckRefresh ==
    /\ Cardinality({t \in Tasks : pre[t] = "refresh"}) <= 1
    /\ (\A t \in Tasks : pre[t] # "none") =>
            Cardinality({t \in Tasks : pre[t] = "refresh"}) = 1

\* C5 amended: the lock keeps the pre-check refreshes apart, one in flight
\* at a time and made by the task inside the lock; a task that enters the
\* lock and finds the token an earlier refresh stored still valid makes no
\* token call and sends with that token.  (A task that finds it not valid,
\* because the earlier refresh failed or its token's lifetime is within the
\* refresh buffer, refreshes again.)
C5_PreCheckRefreshesSerial ==
    /\ Cardinality({t \in Tasks : pc[t] = "pre_refresh"}) <= 1
    /\ \A t \in Tasks :
          /\ pc[t] = "pre_refresh" => lockHolder = t
          /\ pre[t] = "refresh" => ~seen[t].valid
          /\ (pre[t] = "return" /\ pc[t] = "send1") =>
                /\ seen[t].valid
                /\ hdr[t].k = "access"
                /\ calls[t] = 0
                /\ writes[t] = 0

C5_Witness ==
    \E t, u \in Tasks :
        /\ t # u
        /\ pre[t] = "refresh" /\ writes[t] = 1
        /\ pre[u] = "return" /\ pc[u] = "send1"
        /\ hdr[u] = ServerAccess(1)

\* C6: every write to the token state is made by a task that holds the
\* token lock.
C6_WritesUnderLock == lastWrite.kind # "init" => lastWrite.locked

\* C7: the stored access token, refresh token and expiry always come from
\* the same exchange, the last one that succeeded, with the expiry the time
\* of that write plus the response's expires_in.
C7_TokenStateFromOneExchange ==
    lastWrite.kind = "exchange" =>
        /\ accessToken = ServerAccess(lastWrite.id)
        /\ refreshToken = ServerRefresh(lastWrite.id)
        /\ tokenExpiry = lastWrite.at + lastWrite.expires_in
        /\ lastWrite.id = issued

\* A second exchange, by another task and at a later time, has replaced the
\* first one's tokens.
C7_Witness ==
    /\ lastWrite.kind = "exchange"
    /\ lastWrite.id = 2
    /\ lastWrite.at > 0
    /\ \E t \in Tasks : t # lastWrite.by /\ writes[t] = 1

\* C8: _ensure_token returns with no network call when the token is valid;
\* else makes one refresh when a refresh token is stored; else raises
\* AlulaAuthError (log in first) with no network call.
C8_EnsureTokenOutcomes ==
    \A t \in Tasks :
        pre[t] # "none" =>
            /\ seen[t].valid => pre[t] = "return"
            /\ (~seen[t].valid /\ seen[t].refresh) => pre[t] = "refresh"
            /\ (~seen[t].valid /\ ~seen[t].refresh) => pre[t] = "raise"
            /\ pre[t] = "raise" =>
                  /\ pc[t] = "done" /\ result[t] = LoginFirst
                  /\ calls[t] = 0 /\ sent[t] = 0
            /\ pc[t] = "pre_refresh" =>
                  /\ pre[t] = "refresh" /\ calls[t] = 1 /\ lockHolder = t
            /\ pc[t] = "send1" => calls[t] = PreCalls(t)

C8_Witness ==
    \E t \in Tasks :
        /\ pc[t] = "pre_refresh"
        /\ accessToken # None
        /\ ~is_authenticated

\* C9: async_refresh with neither a supplied nor a stored refresh token
\* raises AlulaAuthError("No refresh token available"), sends nothing and
\* writes nothing.
C9_RefreshWithoutToken ==
    \A t \in Tasks :
        op[t] = "refresh" =>
            /\ ~Truthy(arg[t]) =>
                  /\ pc[t] = "done"
                  /\ result[t] = AuthError("No refresh token available")
                  /\ calls[t] = 0
                  /\ writes[t] = 0
            /\ result[t] = AuthError("No refresh token available") =>
                  ~Truthy(arg[t])

C9_Witness ==
    \E t \in Tasks :
        /\ op[t] = "refresh" /\ ~Truthy(arg[t]) /\ pc[t] = "done"
        /\ accessToken # None

\* C10: restore_tokens sets an expiry at most 300 seconds after the call:
\* the time of the call plus min(expires_in, 300).
C10_RestoreExpiryCapped ==
    lastWrite.kind = "restore" =>
        /\ tokenExpiry <= lastWrite.at + RESTORE_CAP
        /\ tokenExpiry = lastWrite.at + Min(lastWrite.expires_in, RESTORE_CAP)

C10_Witness ==
    /\ lastWrite.kind = "restore"
    /\ lastWrite.expires_in > RESTORE_CAP
    /\ lastWrite.at > 0

\* C11: restore_tokens makes no network call, stores exactly the access and
\* refresh token it was given, and with expires_in above the refresh buffer
\* the client is authenticated right after the call.
C11_RestoreStoresArguments ==
    \A t \in Tasks :
        (op[t] = "restore" /\ lastWrite.kind = "restore" /\ lastWrite.by = t) =>
            /\ pc[t] = "done"
            /\ calls[t] = 0 /\ sent[t] = 0
            /\ accessToken = CallerAccess
            /\ refreshToken = arg[t]
            /\ (lastWrite.expires_in > TOKEN_REFRESH_BUFFER /\ now = lastWrite.at)
                  => is_authenticated

\* restore_tokens called at a time after 0 with a lifetime above the buffer.
C11_Witness ==
    \E t \in Tasks :
        /\ op[t] = "restore" /\ lastWrite.kind = "restore" /\ lastWrite.by = t
        /\ lastWrite.expires_in > TOKEN_REFRESH_BUFFER
        /\ lastWrite.at > 0 /\ now = lastWrite.at
        /\ refreshToken = Empty

\* C12: the client is authenticated exactly when an access token is stored
\* and now < expiry - 180.  A fresh client has no tokens and is not
\* authenticated; a token whose expiry is within the buffer is not
\* authenticated.
C12_AuthenticatedIffValid ==
    /\ lastWrite.kind = "init" =>
          accessToken = None /\ refreshToken = None /\ ~is_authenticated
    /\ accessToken = None => ~is_authenticated
    /\ tokenExpiry - now <= TOKEN_REFRESH_BUFFER => ~is_authenticated
    /\ (accessToken # None /\ tokenExpiry - now > TOKEN_REFRESH_BUFFER)
          => is_authenticated

\* A stored token that has not expired yet but is within the buffer.
C12_Witness ==
    /\ accessToken # None
    /\ tokenExpiry > now
    /\ tokenExpiry - now <= TOKEN_REFRESH_BUFFER
    /\ ~is_authenticated

\* C13: whenever an access token is stored, it and the expiry were set by
\* the same operation, the last write to the token state.
C13_ExpirySetWithAccessToken ==
    accessToken # None =>
        /\ lastWrite.kind \in {"restore", "exchange"}
        /\ lastWrite.kind = "restore" =>
              /\ accessToken = CallerAccess
              /\ tokenExpiry = lastWrite.at + Min(lastWrite.expires_in, RESTORE_CAP)
        /\ lastWrite.kind = "exchange" =>
              /\ accessToken = ServerAccess(lastWrite.id)
              /\ tokenExpiry = lastWrite.at + lastWrite.expires_in

\* An exchange at a later time has replaced restored tokens.
C13_Witness ==
    /\ lastWrite.kind = "exchange"
    /\ lastWrite.at > 0
    /\ \E t \in Tasks : op[t] = "restore"

C16_FailuresClassified ==
    \A t \in Tasks :
        pc[t] = "done" =>
            result[t].kind \in {"ok", "AlulaAuthError", "AlulaApiError",
                                "AlulaConnectionError"}

\* The response that ended the _request of task t's operation, when a
\* resource call was answered.
LastAttempt(t) == attempts[t][Len(attempts[t])]
Returned(t) ==
    /\ pc[t] = "done"
    /\ attempts[t] # <<>>
    /\ LastAttempt(t).status = 200
    /\ LastAttempt(t).json

\* C17: an RPC call whose decoded response has an error member fails with
\* AlulaApiError whose status_code is the error's code; otherwise it returns
\* the result member, or an empty object when there is none.
C17_RpcErrorOrResult ==
    \A t \in Tasks :
        (op[t] = "rpc" /\ Returned(t)) =>
            LET rpc == LastAttempt(t).rpc IN
            /\ rpc.has_error =>
                  /\ result[t].kind = "AlulaApiError"
                  /\ rpc.has_code => result[t].code = rpc.code
                  /\ ~rpc.has_code => result[t].code = NoCode
            /\ (~rpc.has_error /\ rpc.has_result) => result[t] = Ok("result")
            /\ (~rpc.has_error /\ ~rpc.has_result) => result[t] = Ok("{}")

\* An RPC call answered with an error member beside a result member, after
\* a 401 and a refresh.
C17_Witness ==
    \E t \in Tasks :
        /\ op[t] = "rpc" /\ Returned(t)
        /\ Len(attempts[t]) = 2
        /\ LastAttempt(t).rpc.has_error /\ LastAttempt(t).rpc.has_result
        /\ result[t].kind = "AlulaApiError" /\ result[t].code = 6

\* C18: a panel command whose RPC fails with code 6 raises AlulaApiError
\* with status_code 6 and the interactive-services message; an RPC error
\* with another code or none, an AlulaAuthError and an AlulaConnectionError
\* reach the caller as _rpc and _request raised them.
C18_HelixCommandDenied ==
    \A t \in Tasks :
        (op[t] \in HelixCommands /\ pc[t] = "done") =>
            /\ Returned(t) =>
                  LET rpc == LastAttempt(t).rpc IN
                  /\ (rpc.has_error /\ rpc.has_code /\ rpc.code = 6) =>
                        result[t] = Denied
                  /\ (rpc.has_error /\ rpc.has_code /\ rpc.code # 6) =>
                        result[t] = ApiError("RPC error", rpc.code)
                  /\ (rpc.has_error /\ ~rpc.has_code) =>
                        result[t] = ApiError("RPC error", NoCode)
            /\ (/\ attempts[t] # <<>>
                /\ \/ LastAttempt(t).status \in {500, Transport}
                   \/ LastAttempt(t).status = 200 /\ ~LastAttempt(t).json) =>
                  result[t] = ConnectionError("Connection error: method path")
            /\ (Len(attempts[t]) = 2 /\ LastAttempt(t).status = 401) =>
                  result[t] = AuthError("Authentication failed after refresh")
            /\ pre[t] = "raise" => result[t] = LoginFirst

\* A disarm made after the clock advanced is answered with RPC error 6.
C18_Witness ==
    \E t \in Tasks :
        /\ op[t] = "disarm" /\ Returned(t)
        /\ LastAttempt(t).rpc = RpcError(6)
        /\ result[t] = Denied
        /\ now > 0

\* The positions visited so far whose signalUserZone is a non-empty
\* all-digit string that decodes to k.
Carrying(k) ==
    { i \in 1..scanned :
        /\ IsDigit(eventLog[i].signalUserZone)
        /\ ToInt(eventLog[i].signalUserZone) = k }
First(S) == CHOOSE i \in S : \A j \in S : i <= j

\* C19: the keys of the mapping are exactly the non-zero integers decoded
\* from the entries whose zone field is a non-empty all-digit string, and
\* the value of a key is the name and type of the first entry carrying it;
\* entries with index 0, an empty or a non-numeric field add nothing.
C19_FirstEntryPerZone ==
    /\ ToInt(<<"0", "3">>) = 3 /\ ToInt(<<"5">>) = 5 /\ ToInt(<<"0">>) = 0
    /\ ~IsDigit(<<>>) /\ ~IsDigit(<<"x">>) /\ ~IsDigit(<<"3", "x">>)
    /\ DOMAIN zones = { k \in {3, 5} : Carrying(k) # {} }
    /\ \A k \in DOMAIN zones :
          /\ zones[k].zone_name = eventLog[First(Carrying(k))].signalUserZoneAlias
          /\ zones[k].zone_type = eventLog[First(Carrying(k))].signalUserZoneType

\* A whole log has been read in which zone 3 appears twice under different
\* names, after an entry with index 0.
C19_Witness ==
    /\ scanned = Len(eventLog) /\ scanned = 3
    /\ eventLog[1].signalUserZone = <<"0">>
    /\ eventLog[2].signalUserZone = <<"0", "3">>
    /\ eventLog[3].signalUserZone = <<"3">>
    /\ eventLog[2].signalUserZoneAlias # eventLog[3].signalUserZoneAlias
    /\ DOMAIN zones = {3}

\* The keys the loops of a call have passed, in order.
KeysPassed(e) == [p \in 1..e.pos |-> KeyAt(e, p)]

\* C20: a call issues a create for a key (device, zone index, on) of its
\* arguments exactly when no subscription fetched at its start has that
\* key; subscriptions of other devices or zones suppress nothing, and with
\* nothing fetched one zone index yields the two creates on=true, on=false.
C20_CreatesForAbsentKeys ==
    \A t \in Tasks :
        LET e == ensure[t]
            NotFetched(k) == \A z \in e.fetched :
                            \/ z.deviceId # k[1]
                            \/ z.zoneIndex # k[2]
                            \/ (z.has_status /\ z.on) # k[3]
        IN  (e.pc = "create" \/ e.outcome = "returned") =>
                /\ e.creates = SelectSeq(KeysPassed(e), NotFetched)
                /\ (e.outcome = "returned" /\ e.fetched = {}
                       /\ Len(e.indices) = 1) =>
                      e.creates = << <<e.device, e.indices[1], TRUE>>,
                                     <<e.device, e.indices[1], FALSE>> >>

\* A call for zones 1 and 2 has returned after fetching subscriptions of
\* another device for zone 1 and its own device's on=true key of zone 1.
C20_Witness ==
    \E t \in Tasks :
        /\ ensure[t].outcome = "returned"
        /\ ensure[t].indices = <<1, 2>>
        /\ ensure[t].fetched = OtherDeviceFeed \cup { Sub("d1", 1, TRUE) }
        /\ ensure[t].creates = << <<"d1", 1, FALSE>>, <<"d1", 2, TRUE>> >>

\* The subscriptions the server stored for the create calls of task t.
StoredFor(t) == { z \in subs : z.by = t }

\* C21: after a call in which every create succeeded, a second call with
\* the same arguments that fetches the resulting subscriptions issues no
\* create, returns 0 and adds no subscription.
C21_SecondCallCreatesNothing ==
    \A t, u \in Tasks :
        LET a == ensure[t]
            b == ensure[u]
        IN  (/\ t # u
             /\ a.outcome = "returned" /\ a.failed = 0
             /\ b.pc \in {"create", "done"} /\ b.outcome # "raised"
             /\ b.device = a.device /\ b.indices = a.indices
             /\ a.fetched \subseteq b.fetched
             /\ \A i \in 1..Len(a.creates) :
                   Created(t, a.creates[i]) \in b.fetched) =>
                /\ b.creates = <<>>
                /\ b.outcome = "returned" /\ b.created = 0
                /\ StoredFor(u) = {}

\* The first call created the four subscriptions of zones 1 and 2; the
\* second call fetched them and has returned.
C21_Witness ==
    \E t, u \in Tasks :
        /\ t # u
        /\ ensure[t].outcome = "returned" /\ ensure[t].failed = 0
        /\ ensure[t].indices = <<1, 2>> /\ ensure[u].indices = <<1, 2>>
        /\ Len(ensure[t].creates) = 4
        /\ StoredFor(t) \subseteq ensure[u].fetched
        /\ ensure[u].outcome = "returned" /\ ensure[u].created = 0

\* C22: a create that fails is not raised to the caller: the loops go on
\* over the remaining keys, the call returns, and the count it returns is
\* the number of its creates that succeeded.
C22_FailedCreateSwallowed ==
    \A t \in Tasks :
        LET e == ensure[t] IN
        /\ e.outcome = "raised" => e.creates = <<>>
        /\ e.pc = "create" =>
              Len(e.creates) = e.failed + Cardinality(StoredFor(t)) + 1
        /\ e.outcome = "returned" =>
              /\ e.pos = 2 * Len(e.indices)
              /\ Len(e.creates) = e.failed + Cardinality(StoredFor(t))
              /\ e.created = Cardinality(StoredFor(t))

\* The create for on=true failed, the one for on=false succeeded after it,
\* and the call returned 1.
C22_Witness ==
    \E t \in Tasks :
        /\ ensure[t].outcome = "returned"
        /\ ensure[t].indices = <<1>>
        /\ ensure[t].failed = 1 /\ ensure[t].created = 1
        /\ StoredFor(t) = { Created(t, <<"d1", 1, FALSE>>) }

RECURSIVE SumCreated(_)
SumCreated(S) ==
    IF S = {} THEN 0
    ELSE LET t == CHOOSE x \in S : TRUE
         IN  ensure[t].created + SumCreated(S \ {t})

\* C23: when the calls that ran, overlapping or not, have all ended
\* against a server that rejects only duplicate keys, every requested key
\* is subscribed exactly once, no call has failed, and the counts returned
\* add up to the number of subscriptions the server stored.
C23_ConcurrentCallsConverge ==
    (\A t \in Tasks : ensure[t].pc \in {"idle", "done"}) =>
        /\ \A t \in Tasks :
              LET e == ensure[t] IN
              e.pc = "done" =>
                  /\ e.outcome = "returned"
                  /\ \A p \in 1..(2 * Len(e.indices)) :
                        Cardinality({ z \in subs : ZoneKey(z) = KeyAt(e, p) }) = 1
        /\ SumCreated(Tasks) = Cardinality({ z \in subs : z.by # NoTask })

\* Two calls for zone 1 both fetched an empty feed; each had one create
\* stored and one rejected.
C23_Witness ==
    /\ \A t \in EnsureTasks :
          /\ ensure[t].pc = "done"
          /\ ensure[t].indices = <<1>>
          /\ ensure[t].fetched = {}
          /\ ensure[t].created = 1 /\ ensure[t].failed = 1
    /\ Cardinality(subs) = 2

\* The order of _request: the token check, the refresh inside the lock, the
\* first attempt, the refresh after a 401, the second attempt, the end.
Linear ==
    {<<"ensure", "pre_refresh">>, <<"ensure", "send1">>, <<"ensure", "done">>,
     <<"pre_refresh", "send1">>, <<"pre_refresh", "done">>,
     <<"send1", "retry_refresh">>, <<"send1", "done">>,
     <<"retry_refresh", "send2">>, <<"retry_refresh", "done">>,
     <<"send2", "done">>}

\* C24: isPanel true decodes to type panel, whatever isCamera is; the
\* arming levels armstay, armaway and armnight decode to themselves with
\* armed true, disarm to itself with armed false; an absent or unrecognized
\* arming level decodes to unknown, armed false, and nothing fails.
C24_DeviceDecoding ==
    device # NoDevice =>
        /\ deviceData.isPanel = "true" => device.device_type = "panel"
        /\ deviceData.armingLevel \in {"armstay", "armaway", "armnight"} =>
              /\ device.arming_state = deviceData.armingLevel
              /\ device.is_armed
        /\ deviceData.armingLevel = "disarm" =>
              device.arming_state = "disarm" /\ ~device.is_armed
        /\ deviceData.armingLevel \in {Absent, "bogus_value"} =>
              device.arming_state = "unknown" /\ ~device.is_armed

\* A record that is both panel and camera, with an unrecognized arming
\* level, has been decoded.
C24_Witness ==
    /\ deviceData.isPanel = "true" /\ deviceData.isCamera = "true"
    /\ deviceData.armingLevel = "bogus_value"
    /\ device = [device_type |-> "panel", arming_state |-> "unknown",
                 is_armed |-> FALSE]

\* C25: a request moves forward through the sequence token check, first
\* attempt, refresh after a 401, second attempt, end, never back; it makes
\* at most two resource attempts and at most two token calls (one in the
\* token check, one after a 401); and when every network call returns and
\* the lock is handed on, it ends, with a result.
C25_LinearAndTerminates ==
    /\ [][\A t \in Tasks :
              /\ pc'[t] # pc[t] => <<pc[t], pc'[t]>> \in Linear
              /\ Len(attempts'[t]) <= 2 /\ sent'[t] <= 2
              /\ calls'[t] <= 2
              /\ calls'[t] = 2 => pre'[t] = "refresh" /\ Len(attempts'[t]) >= 1
              /\ (pc'[t] = "done") = (result'[t] # NoResult)]_vars
    /\ \A t \in Tasks : (pc[t] # "done") ~> (pc[t] = "done")

C25_Witness ==
    \E t \in Tasks :
        /\ pc[t] = "done"
        /\ Answered(t, 401, 200)
        /\ calls[t] = 2 /\ sent[t] = 2

\* C26: a request sends no resource call before its token check has
\* succeeded: while the check or its refresh is pending nothing has been
\* sent; a resource call was sent only after the check returned on a valid
\* token or after its refresh stored new tokens; a request that finds no
\* valid access token and no refresh token ends in AlulaAuthError with no
\* HTTP call of either kind; a request whose pre-check refresh failed ends
\* in that failure with no resource call.
C26_NoCallBeforeTokenCheck ==
    \A t \in Tasks :
        op[t] = "request" =>
            /\ pc[t] \in {"ensure", "pre_refresh"} =>
                  sent[t] = 0 /\ attempts[t] = <<>>
            /\ sent[t] >= 1 =>
                  \/ pre[t] = "return" /\ seen[t].valid
                  \/ pre[t] = "refresh" /\ writes[t] >= 1
            /\ (pre[t] # "none" /\ ~seen[t].valid /\ ~seen[t].refresh) =>
                  /\ pc[t] = "done"
                  /\ result[t].kind = "AlulaAuthError"
                  /\ sent[t] = 0 /\ calls[t] = 0 /\ attempts[t] = <<>>
            /\ (pre[t] = "refresh" /\ pc[t] = "done" /\ writes[t] = 0) =>
                  /\ result[t].kind # "ok"
                  /\ sent[t] = 0 /\ calls[t] = 1 /\ attempts[t] = <<>>

C26_Witness ==
    \E t \in Tasks :
        /\ op[t] = "request" /\ pc[t] = "done"
        /\ accessToken = None /\ refreshToken = None
        /\ lastWrite.kind = "init"
        /\ result[t] = LoginFirst
        /\ sent[t] = 0 /\ calls[t] = 0

\* C27: the step that follows the refresh after a 401 sends the same
\* request again with the access token that this refresh has just stored
\* as its Authorization header, a token other than the one the first
\* attempt carried, whatever the other tasks did in between; and the header
\* of a retry in flight does not change.
C27_RetryCarriesRefreshedToken ==
    [][\A t \in Tasks :
          /\ (pc[t] = "retry_refresh" /\ pc'[t] = "send2") =>
                /\ issued' = issued + 1
                /\ accessToken' = ServerAccess(issued')
                /\ hdr'[t] = accessToken'
                /\ hdr'[t] # hdr[t]
                /\ lastWrite'.by = t
                /\ sent'[t] = 2
                /\ op'[t] = op[t] /\ arg'[t] = arg[t]
          /\ (pc[t] = "send2" /\ pc'[t] = "send2") => hdr'[t] = hdr[t]]_vars

C27_Witness ==
    \E t, u \in Tasks :
        /\ t # u
        /\ pc[t] = "send2"
        /\ attempts[t][1].status = 401
        /\ hdr[t] = ServerAccess(2)
        /\ accessToken = ServerAccess(3)
        /\ lastWrite.by = u

\* C28: when the first resource attempt of a request fails other than by a
\* 401 (a status of 400 or above, or a transport failure), the request
\* ends at once in an error: the step that receives the response makes no
\* token call and no second attempt, and the token state is left alone.
C28_OtherFailureSurfaces ==
    \A t \in Tasks :
        (/\ op[t] = "request"
         /\ attempts[t] # <<>>
         /\ attempts[t][1].status \notin {200, 401}) =>
            /\ pc[t] = "done"
            /\ result[t].kind \notin {"none", "ok"}
            /\ Len(attempts[t]) = 1
            /\ sent[t] = 1
            /\ calls[t] = PreCalls(t)
            /\ writes[t] = PreCalls(t)

C28_Witness ==
    \E t \in Tasks :
        /\ op[t] = "request" /\ pc[t] = "done"
        /\ Len(attempts[t]) = 1
        /\ attempts[t][1].status = 500
        /\ pre[t] = "refresh"
        /\ calls[t] = 1

\* C29: the step in which a token exchange fails, whether the exchange was
\* started by login, by refresh, by the token check or after a 401, and
\* whether it fails by a 400 or 401, another status, a body that does not
\* decode or lacks the tokens, or a transport failure, leaves access token,
\* refresh token and expiry as they were.
C29_FailedExchangeKeepsTokens ==
    [][\A t \in Tasks :
          (/\ pc[t] \in TokenWait
           /\ pc'[t] = "done"
           /\ result'[t].kind # "ok") =>
              UNCHANGED <<accessToken, refreshToken, tokenExpiry>>]_vars

C29_Witness ==
    \E t \in Tasks :
        /\ op[t] = "refresh" /\ pc[t] = "done"
        /\ answer[t] # NoAnswer
        /\ answer[t].status = 401
        /\ result[t].kind = "AlulaAuthError"
        /\ accessToken = CallerAccess
        /\ refreshToken = CallerRefresh

\* C30: the token lock is held only by a task that is inside
\* _ensure_token waiting for its refresh: a task that has left it, by
\* return, by the failure of its refresh or by the AlulaAuthError for the
\* missing refresh token, does not hold the lock; and every task waiting
\* to enter eventually enters, when every token call returns.
C30_LockReleasedOnExit ==
    /\ \A t \in Tasks : lockHolder = t => pc[t] = "pre_refresh"
    /\ [][\A t \in Tasks :
              /\ lockHolder' = t => pc'[t] = "pre_refresh"
              /\ (pc[t] = "pre_refresh" /\ pc'[t] # "pre_refresh") =>
                    lockHolder' = NoTask
              /\ (pc[t] = "ensure" /\ pc'[t] \in {"send1", "done"}) =>
                    lockHolder' = NoTask]_vars
    /\ \A t \in Tasks : (pc[t] = "ensure") ~> (pc[t] # "ensure")

C30_Witness ==
    \E t, u \in Tasks :
        /\ t # u
        /\ pre[t] = "refresh" /\ pc[t] = "done"
        /\ writes[t] = 0 /\ result[t].kind = "AlulaAuthError"
        /\ lockHolder = u /\ pc[u] = "pre_refresh"

\* The zone indices of a call, each counted once.
DistinctIndices(e) == { e.indices[i] : i \in 1..Len(e.indices) }

\* C31: one call issues at most one create per key (device, zone index,
\* on), also when zone_indices names an index more than once, and the
\* count it returns is at most twice the number of distinct indices.
C31_OneCreatePerKey ==
    \A t \in Tasks :
        LET e == ensure[t] IN
        /\ \A i, j \in 1..Len(e.creates) :
              i # j => e.creates[i] # e.creates[j]
        /\ e.outcome = "returned" =>
              e.created <= 2 * Cardinality(DistinctIndices(e))

====
